---- MODULE Spec2Model ----
(***************************************************************************)
(* Model of src/src/main.py: the training loop (train_model), the          *)
(* evaluation routine (test_model) and the two branches of main that call  *)
(* them.                                                                   *)
(*                                                                         *)
(* Quantities                                                              *)
(*   - a probability is an integer number of hundredths (40 is 0.4);       *)
(*   - a batch loss is a natural number of loss units; the criterion      *)
(*     (main.py:207, a function of the outputs and the targets) is         *)
(*     represented by the number of cells of the batch whose probability   *)
(*     is on the wrong side of one half;                                   *)
(*   - a metric or an epoch loss is an exact fraction <<n, d>> in lowest   *)
(*     terms;                                                              *)
(*   - the model parameters are the number of optimizer steps applied to   *)
(*     the freshly constructed network: every step yields parameters the   *)
(*     network did not have before.                                        *)
(***************************************************************************)
EXTENDS Integers, Sequences, FiniteSets

(***************************************************************************)
(* Bounds of the model.                                                    *)
(***************************************************************************)
MaxEpochs == 2

MaxBatchSize == 2

(***************************************************************************)
(* Program constants.                                                      *)
(***************************************************************************)
\* main.py:37-38  frame_classes / no_of_classes
no_of_classes == 7

\* main.py:90 and main.py:158: the literal 0.4, in hundredths
TrainThreshold == 40

TestThreshold == 40

Classes == 1..no_of_classes

(***************************************************************************)
(* Exact fractions.                                                        *)
(***************************************************************************)
RECURSIVE GCD(_, _)
GCD(a, b) == IF b = 0 THEN a ELSE GCD(b, a % b)

\* n / d in lowest terms; sklearn reports a metric whose denominator is 0 as 0.0
Frac(n, d) == IF d = 0 \/ n = 0 THEN <<0, 1>> ELSE <<n \div GCD(n, d), d \div GCD(n, d)>>

Zero == <<0, 1>>

FracGt(a, b) == a[1] * b[2] > b[1] * a[2]

(***************************************************************************)
(* Sequence helpers.                                                       *)
(***************************************************************************)
RECURSIVE SumSeq(_)
SumSeq(s) == IF s = <<>> THEN 0 ELSE Head(s) + SumSeq(Tail(s))

Min(a, b) == IF a < b THEN a ELSE b

(***************************************************************************)
(* The corpus (main.py:182-192).  Per example: the number of tokens of its *)
(* text, init_token and eos_token included, and one label per frame class. *)
(***************************************************************************)
Row(S) == [c \in Classes |-> IF c \in S THEN 1 ELSE 0]

Example(n, S) == [len |-> n, labels |-> Row(S)]

TrainData == <<Example(3, {1}), Example(4, {2, 3})>>

ValData == <<Example(5, {1, 2}), Example(3, {})>>

TestData == <<Example(4, {1}), Example(3, {}), Example(2, {3})>>

Dataset(ph) == IF ph = "train" THEN TrainData ELSE IF ph = "val" THEN ValData ELSE TestData

\* main.py:55
dataset_sizes(ph) == Len(Dataset(ph))

\* len(dataloaders[phase]): the iterator yields the data set once, in
\* batches of batch_size examples, the last one possibly smaller
NumBatches(ph, bs) == (Len(Dataset(ph)) + bs - 1) \div bs

BatchFirst(k, bs) == k * bs + 1

BatchLast(ph, k, bs) == Min((k + 1) * bs, Len(Dataset(ph)))

BatchExamples(ph, k, bs) == SubSeq(Dataset(ph), BatchFirst(k, bs), BatchLast(ph, k, bs))

\* torch.stack(labels, dim=1): the (examples x 7) target matrix of batch k
Targets(ph, k, bs) ==
    [i \in 1..Len(BatchExamples(ph, k, bs)) |-> BatchExamples(ph, k, bs)[i].labels]

RECURSIVE MaxLen(_)
MaxLen(b) == IF Len(b) = 1 THEN b[1].len
             ELSE IF b[1].len > MaxLen(Tail(b)) THEN b[1].len ELSE MaxLen(Tail(b))

\* inputs of batch k: the TEXT tensor.  The Field is built without
\* batch_first (main.py:182), so its shape is (padded length, examples)
InputsShape(ph, k, bs) ==
    <<MaxLen(BatchExamples(ph, k, bs)), Len(BatchExamples(ph, k, bs))>>

(***************************************************************************)
(* The forward pass of models.BiLSTM: per example, one probability per     *)
(* class.  The rows the network can produce are drawn from this set.       *)
(***************************************************************************)
ProbRows ==
    { [c \in Classes |-> IF c = 1 THEN 40 ELSE 0],
      [c \in Classes |-> IF c = 1 THEN 41 ELSE 39],
      [c \in Classes |-> IF c = 3 THEN 90 ELSE 0],
      [c \in Classes |-> IF c = 1 THEN 100 ELSE IF c = 2 THEN 41 ELSE IF c = 3 THEN 50 ELSE 40] }

Forward(n) == [1..n -> ProbRows]

\* criterion(outputs, targets), main.py:91 and main.py:207
Criterion(p, t) ==
    Cardinality({x \in (1..Len(t)) \X Classes :
                    \/ t[x[1]][x[2]] = 1 /\ p[x[1]][x[2]] < 50
                    \/ t[x[1]][x[2]] = 0 /\ p[x[1]][x[2]] >= 50})

(***************************************************************************)
(* Matrices: np.empty(shape=(0, no_of_classes)) and np.append(.., axis=0). *)
(***************************************************************************)
EmptyMatrix == [ncols |-> no_of_classes, rows |-> <<>>]

NpAppend(m, rows) == [ncols |-> m.ncols, rows |-> m.rows \o rows]

(***************************************************************************)
(* The decision rule: torch.where(pred > 0.4, ones, zeros).                *)
(***************************************************************************)
\* variant: threshold met or exceeded
TrainPredicted_AtLeast(p) == [i \in 1..Len(p) |-> [c \in Classes |-> IF p[i][c] >= TrainThreshold THEN 1 ELSE 0]]

\* main.py:86-90 (train_model)
TrainPredicted(p) == [i \in 1..Len(p) |-> [c \in Classes |-> IF p[i][c] > TrainThreshold THEN 1 ELSE 0]]

\* main.py:155-158 (test_model)
TestPredicted(p) == [i \in 1..Len(p) |-> [c \in Classes |-> IF p[i][c] > TestThreshold THEN 1 ELSE 0]]

(***************************************************************************)
(* sklearn's accuracy_score (subset accuracy) and micro-averaged           *)
(* precision_recall_fscore_support over two label matrices.                *)
(***************************************************************************)
Cells(m) == {x \in (1..Len(m.rows)) \X Classes : TRUE}

TruePos(yt, yp) == Cardinality({x \in Cells(yt) : yt.rows[x[1]][x[2]] = 1 /\ yp.rows[x[1]][x[2]] = 1})

FalsePos(yt, yp) == Cardinality({x \in Cells(yt) : yt.rows[x[1]][x[2]] = 0 /\ yp.rows[x[1]][x[2]] = 1})

FalseNeg(yt, yp) == Cardinality({x \in Cells(yt) : yt.rows[x[1]][x[2]] = 1 /\ yp.rows[x[1]][x[2]] = 0})

accuracy_score(yt, yp) ==
    Frac(Cardinality({i \in 1..Len(yt.rows) : yt.rows[i] = yp.rows[i]}), Len(yt.rows))

micro_precision(yt, yp) == Frac(TruePos(yt, yp), TruePos(yt, yp) + FalsePos(yt, yp))

micro_recall(yt, yp) == Frac(TruePos(yt, yp), TruePos(yt, yp) + FalseNeg(yt, yp))

\* 2PR / (P + R), which is 2TP / (2TP + FP + FN), and 0.0 when TP = 0
micro_f1(yt, yp) ==
    Frac(2 * TruePos(yt, yp), 2 * TruePos(yt, yp) + FalsePos(yt, yp) + FalseNeg(yt, yp))

(***************************************************************************)
(* State.                                                                  *)
(***************************************************************************)
VARIABLES
    pc,              \* where the process is: "shell" is between two runs of main
    ckpt,            \* ./models/<model_name>.pt: [present, wts]
    trained,         \* a training run has been started
    params,          \* the live model's parameters
    training,        \* model.training, set by model.train() / model.eval()
    has_grad,        \* the parameters' gradients are populated
    num_epochs,      \* args.epochs
    batch_size,      \* args.batch_size
    best_model_wts,  \* train_model's best_model_wts: a state_dict
    best_acc, best_precision, best_recall, best_f1,
    model_loss,      \* [train |-> <<..>>, val |-> <<..>>], indexed by epoch + 1
    epoch, phase, batch_idx,
    running_loss,    \* natural number of loss units
    y_true, y_pred,  \* the accumulators
    pred,            \* the probabilities of the batch processed last
    batch_log,       \* history: the batches this phase's loop has processed
    phase_log,       \* history: <<epoch, phase, epoch_loss>> per finished phase
    val_log          \* history: the metrics and parameters at each finished val phase

diskVars == <<ckpt, trained>>

modelVars == <<params, training, has_grad>>

argVars == <<num_epochs, batch_size>>

bestVars == <<best_model_wts, best_acc, best_precision, best_recall, best_f1>>

loopVars == <<epoch, phase, batch_idx>>

accVars == <<running_loss, y_true, y_pred, pred, batch_log>>

histVars == <<phase_log, val_log>>

vars == <<pc, diskVars, modelVars, argVars, bestVars, model_loss, loopVars, accVars, histVars>>

(***************************************************************************)
(* state_dict, load_state_dict, torch.save, torch.load.                    *)
(*                                                                         *)
(* model.state_dict() returns a dictionary whose tensors share storage     *)
(* with the live parameters: it is a reference to the model's own tensors, *)
(* not a copy.  Reading it gives the parameters the model has at the time  *)
(* of the read.                                                            *)
(***************************************************************************)
\* main.py:53, main.py:127
StateDict == [storage |-> "model"]

\* the values held by the tensors of a state_dict, read now
TensorValue(sd) == IF sd.storage = "model" THEN params ELSE sd.value

\* main.py:140: copies the state_dict's tensor values into the parameters
LoadStateDict(sd) == TensorValue(sd)

\* variant: the file keeps the freshly constructed parameters
TorchSave_Fresh(sd) == [present |-> TRUE, wts |-> 0]

\* main.py:128: serialises the tensor values to the file
TorchSave(sd) == [present |-> TRUE, wts |-> TensorValue(sd)]

NoFile == [present |-> FALSE, wts |-> 0]

\* no state_dict is held (outside train_model)
NoDict == [storage |-> "none", value |-> 0]

(***************************************************************************)
(* Pieces of train_model.                                                  *)
(***************************************************************************)
\* variant: the step is taken in every phase
OptimizerStep_Always(ph, p) == p + 1

\* main.py:94-96: backward + optimizer step only in the train phase
OptimizerStep(ph, p) == IF ph = "train" THEN p + 1 ELSE p

\* main.py:102: running_loss += loss.item() * inputs.size(0)
RunningLoss(rl, loss, shape) == rl + loss * shape[1]

\* main.py:112
EpochLoss(rl, ph) == Frac(rl, dataset_sizes(ph))

\* variant: any phase may set the best
IsImprovement_AnyPhase(ph, f1, best) == FracGt(f1, best)

\* variant: an equal F1 counts as an improvement
IsImprovement_OrEqual(ph, f1, best) == ph = "val" /\ ~FracGt(best, f1)

\* main.py:122
IsImprovement(ph, f1, best) == ph = "val" /\ FracGt(f1, best)

\* variant: the loss is always written to the first entry
SetLoss_First(ml, ph, e, l) == [ml EXCEPT ![ph][1] = l]

\* main.py:116
SetLoss(ml, ph, e, l) == [ml EXCEPT ![ph][e + 1] = l]

\* main.py:56
InitLoss(n) == [x \in {"train", "val"} |-> [e \in 1..n |-> Zero]]

NextPhase(ph) == IF ph = "train" THEN "val" ELSE "train"

NextEpoch(ph, e) == IF ph = "train" THEN e ELSE e + 1

(***************************************************************************)
(* Initial state: a shell with no checkpoint file for the model name, no   *)
(* process running.                                                        *)
(***************************************************************************)
Init ==
    /\ pc = "shell"
    /\ ckpt = NoFile
    /\ trained = FALSE
    /\ params = 0
    /\ training = TRUE
    /\ has_grad = FALSE
    /\ num_epochs = 0
    /\ batch_size = 1
    /\ best_model_wts = NoDict
    /\ best_acc = Zero
    /\ best_precision = Zero
    /\ best_recall = Zero
    /\ best_f1 = Zero
    /\ model_loss = InitLoss(0)
    /\ epoch = 0
    /\ phase = "train"
    /\ batch_idx = 0
    /\ running_loss = 0
    /\ y_true = EmptyMatrix
    /\ y_pred = EmptyMatrix
    /\ pred = <<>>
    /\ batch_log = <<>>
    /\ phase_log = <<>>
    /\ val_log = <<>>

(***************************************************************************)
(* main without --test, up to the loop of train_model                      *)
(* (main.py:196-238, 51-56).                                               *)
(***************************************************************************)
StartTrain ==
    /\ pc = "shell"
    /\ ~trained
    /\ \E n \in 0..MaxEpochs, bs \in 1..MaxBatchSize :
        /\ num_epochs' = n
        /\ batch_size' = bs
        /\ model_loss' = InitLoss(n)
    /\ trained' = TRUE
    /\ params' = 0
    /\ training' = TRUE
    /\ has_grad' = FALSE
    /\ best_model_wts' = StateDict
    /\ best_acc' = Zero
    /\ best_precision' = Zero
    /\ best_recall' = Zero
    /\ best_f1' = Zero
    /\ epoch' = 0
    /\ phase' = "train"
    /\ batch_idx' = 0
    /\ phase_log' = <<>>
    /\ val_log' = <<>>
    /\ pc' = "phase_start"
    /\ UNCHANGED <<ckpt, accVars>>

(***************************************************************************)
(* The head of a phase (main.py:58-73): set the mode, reset the            *)
(* accumulators.                                                           *)
(***************************************************************************)
\* variant: the accumulator is carried over from the phase before
ResetMatrix_Keep(m) == m

\* main.py:72-73
ResetMatrix(m) == EmptyMatrix

PhaseStart ==
    /\ pc = "phase_start"
    /\ epoch < num_epochs
    /\ training' = (phase = "train")
    /\ running_loss' = 0
    /\ y_true' = ResetMatrix(y_true)
    /\ y_pred' = ResetMatrix(y_pred)
    /\ batch_log' = <<>>
    /\ batch_idx' = 0
    /\ pc' = "batch"
    /\ UNCHANGED <<diskVars, params, has_grad, argVars, bestVars, model_loss,
                   epoch, phase, pred, histVars>>

(***************************************************************************)
(* One iteration of the batch loop (main.py:76-110).                       *)
(***************************************************************************)
Batch ==
    /\ pc = "batch"
    /\ batch_idx < NumBatches(phase, batch_size)
    /\ LET targets == Targets(phase, batch_idx, batch_size)
           inputs == InputsShape(phase, batch_idx, batch_size)
       IN \E p \in Forward(Len(targets)) :
            LET loss == Criterion(p, targets)
            IN /\ pred' = p
               /\ params' = OptimizerStep(phase, params)
               /\ has_grad' = (phase = "train")
               /\ y_true' = NpAppend(y_true, targets)
               /\ y_pred' = NpAppend(y_pred, TrainPredicted(p))
               /\ running_loss' = RunningLoss(running_loss, loss, inputs)
               /\ batch_log' = Append(batch_log, [loss |-> loss, examples |-> Len(targets)])
    /\ batch_idx' = batch_idx + 1
    /\ UNCHANGED <<pc, diskVars, training, argVars, bestVars, model_loss, epoch, phase, histVars>>

(***************************************************************************)
(* The tail of a phase (main.py:112-128): epoch loss and metrics, the      *)
(* loss history, and the best-checkpoint bookkeeping.                      *)
(***************************************************************************)
PhaseEnd ==
    /\ pc = "batch"
    /\ batch_idx = NumBatches(phase, batch_size)
    /\ LET epoch_loss == EpochLoss(running_loss, phase)
           epoch_acc == accuracy_score(y_true, y_pred)
           epoch_precision == micro_precision(y_true, y_pred)
           epoch_recall == micro_recall(y_true, y_pred)
           epoch_f1 == micro_f1(y_true, y_pred)
       IN /\ model_loss' = SetLoss(model_loss, phase, epoch, epoch_loss)
          /\ phase_log' = Append(phase_log, <<epoch, phase, epoch_loss>>)
          /\ val_log' = IF phase = "val"
                        THEN Append(val_log, [acc |-> epoch_acc, precision |-> epoch_precision,
                                              recall |-> epoch_recall, f1 |-> epoch_f1,
                                              wts |-> params])
                        ELSE val_log
          /\ IF IsImprovement(phase, epoch_f1, best_f1)
             THEN /\ best_acc' = epoch_acc
                  /\ best_f1' = epoch_f1
                  /\ best_precision' = epoch_precision
                  /\ best_recall' = epoch_recall
                  /\ best_model_wts' = StateDict
                  /\ ckpt' = TorchSave(StateDict)
             ELSE UNCHANGED <<bestVars, ckpt>>
    /\ phase' = NextPhase(phase)
    /\ epoch' = NextEpoch(phase, epoch)
    /\ pc' = "phase_start"
    /\ UNCHANGED <<trained, modelVars, argVars, batch_idx, accVars>>

(***************************************************************************)
(* After the last epoch (main.py:131-141): reload best_model_wts, return.  *)
(***************************************************************************)
TrainReturn ==
    /\ pc = "phase_start"
    /\ epoch = num_epochs
    /\ params' = LoadStateDict(best_model_wts)
    /\ pc' = "returned"
    /\ UNCHANGED <<diskVars, training, has_grad, argVars, bestVars, model_loss,
                   loopVars, accVars, histVars>>

(***************************************************************************)
(* main after train_model returned (main.py:240, 258): plot, log, exit.    *)
(* The process's memory is gone; the file and the histories stay.          *)
(***************************************************************************)
ExitTrain ==
    /\ pc = "returned"
    /\ pc' = "shell"
    /\ params' = 0
    /\ training' = TRUE
    /\ has_grad' = FALSE
    /\ num_epochs' = 0
    /\ batch_size' = 1
    /\ best_model_wts' = NoDict
    /\ best_acc' = Zero
    /\ best_precision' = Zero
    /\ best_recall' = Zero
    /\ best_f1' = Zero
    /\ model_loss' = InitLoss(0)
    /\ epoch' = 0
    /\ phase' = "train"
    /\ batch_idx' = 0
    /\ running_loss' = 0
    /\ y_true' = EmptyMatrix
    /\ y_pred' = EmptyMatrix
    /\ pred' = <<>>
    /\ batch_log' = <<>>
    /\ phase_log' = <<>>
    /\ UNCHANGED <<diskVars, val_log>>

(***************************************************************************)
(* main with --test (main.py:242-256) up to the loop of test_model         *)
(* (main.py:145-148): load the checkpoint of the model name, enter         *)
(* inference mode, create the accumulators.                                *)
(***************************************************************************)
\* main.py:255: torch.load of the checkpoint file
TorchLoad(f) == [storage |-> "file", value |-> f.wts]

StartTest ==
    /\ pc = "shell"
    /\ ckpt.present
    /\ \E bs \in 1..MaxBatchSize : batch_size' = bs
    /\ params' = LoadStateDict(TorchLoad(ckpt))
    /\ training' = FALSE
    /\ phase' = "test"
    /\ batch_idx' = 0
    /\ y_true' = EmptyMatrix
    /\ y_pred' = EmptyMatrix
    /\ pc' = "test_batch"
    /\ UNCHANGED <<diskVars, has_grad, num_epochs, bestVars, model_loss, epoch,
                   running_loss, pred, batch_log, histVars>>

\* main.py:255 with no file at the path: torch.load raises, main has no handler
TestLoadFails ==
    /\ pc = "shell"
    /\ ~ckpt.present
    /\ pc' = "load_failed"
    /\ UNCHANGED <<diskVars, modelVars, argVars, bestVars, model_loss, loopVars,
                   accVars, histVars>>

(***************************************************************************)
(* One iteration of test_model's loop (main.py:151-161).                   *)
(***************************************************************************)
TestBatch ==
    /\ pc = "test_batch"
    /\ batch_idx < NumBatches("test", batch_size)
    /\ LET targets == Targets("test", batch_idx, batch_size)
       IN \E p \in Forward(Len(targets)) :
            /\ pred' = p
            /\ y_true' = NpAppend(y_true, targets)
            /\ y_pred' = NpAppend(y_pred, TestPredicted(p))
    /\ batch_idx' = batch_idx + 1
    /\ UNCHANGED <<pc, diskVars, modelVars, argVars, bestVars, model_loss, epoch, phase,
                   running_loss, batch_log, histVars>>

\* main.py:163-170: the metrics are printed, y_true and y_pred returned
TestEnd ==
    /\ pc = "test_batch"
    /\ batch_idx = NumBatches("test", batch_size)
    /\ pc' = "test_done"
    /\ UNCHANGED <<diskVars, modelVars, argVars, bestVars, model_loss, loopVars,
                   accVars, histVars>>

\* the evaluation process ends (normally, or with the traceback of the load)
ExitTest ==
    /\ pc \in {"test_done", "load_failed"}
    /\ pc' = "shell"
    /\ params' = 0
    /\ training' = TRUE
    /\ batch_size' = 1
    /\ phase' = "train"
    /\ batch_idx' = 0
    /\ y_true' = EmptyMatrix
    /\ y_pred' = EmptyMatrix
    /\ pred' = <<>>
    /\ UNCHANGED <<diskVars, has_grad, num_epochs, bestVars, model_loss, epoch,
                   running_loss, batch_log, histVars>>

Next ==
    \/ StartTrain
    \/ PhaseStart
    \/ Batch
    \/ PhaseEnd
    \/ TrainReturn
    \/ ExitTrain
    \/ StartTest
    \/ TestLoadFails
    \/ TestBatch
    \/ TestEnd
    \/ ExitTest

Spec == Init /\ [][Next]_vars

(***************************************************************************)
(* Vocabulary of the properties.                                           *)
(***************************************************************************)
TrainPcs == {"phase_start", "batch", "returned"}

InTrainModel == pc \in TrainPcs

\* the phase whose tail ran last (defined when phase_log is not empty)
LastPhase == phase_log[Len(phase_log)][2]

\* a phase of train_model has just ended and the next has not begun
AtPhaseEnd == pc = "phase_start" /\ phase_log # <<>>

\* some finished validation phase had an F1 above the initial best of 0.0
SomeImprovement == \E i \in 1..Len(val_log) : FracGt(val_log[i].f1, Zero)

\* the earliest finished validation phase whose F1 is the maximum so far
BestIdx ==
    CHOOSE i \in 1..Len(val_log) :
        /\ \A j \in 1..Len(val_log) : ~FracGt(val_log[j].f1, val_log[i].f1)
        /\ \A j \in 1..(i - 1) : FracGt(val_log[i].f1, val_log[j].f1)

BestMetrics == <<best_acc, best_precision, best_recall, best_f1>>

MetricsOf(r) == <<r.acc, r.precision, r.recall, r.f1>>

\* train_model is at the tail of a phase (all its batches processed)
AtTail == pc = "batch" /\ batch_idx = NumBatches(phase, batch_size)

(***************************************************************************)
(* C1.  When train_model returns after at least one epoch, the returned    *)
(* model's parameters are those the model had at the end of the validation *)
(* phase of the epoch that set the best validation F1, not those left by   *)
(* the last epoch's training steps.                                        *)
(***************************************************************************)
C1_ReturnedModelIsBestSnapshot ==
    (pc = "returned" /\ num_epochs >= 1 /\ SomeImprovement)
        => params = val_log[BestIdx].wts

(***************************************************************************)
(* C2.  Within one train_model run best_f1 never decreases; the checkpoint *)
(* file and the best-metric values change only at the tail of a validation *)
(* phase whose F1 is strictly greater than best_f1, and then best_f1       *)
(* becomes that F1; a validation phase whose F1 is equal or lower leaves   *)
(* them unchanged, and no step of a train phase writes the checkpoint.     *)
(***************************************************************************)
C2_Step ==
    (pc \in TrainPcs /\ pc' \in TrainPcs) =>
        /\ ~FracGt(best_f1, best_f1')
        /\ (ckpt' # ckpt \/ BestMetrics' # BestMetrics) =>
               /\ AtTail
               /\ phase = "val"
               /\ FracGt(micro_f1(y_true, y_pred), best_f1)
               /\ best_f1' = micro_f1(y_true, y_pred)
               /\ ckpt'.present
        /\ (AtTail /\ phase = "val" /\ ~FracGt(micro_f1(y_true, y_pred), best_f1)) =>
               (ckpt' = ckpt /\ BestMetrics' = BestMetrics)
        /\ (pc = "batch" /\ phase = "train") => ckpt' = ckpt

C2_BestCheckpointMonotone == [][C2_Step]_vars

\* an improving epoch was followed by an epoch that did not improve
C2_Witness ==
    /\ pc = "returned"
    /\ Len(val_log) = 2
    /\ FracGt(val_log[1].f1, Zero)
    /\ ~FracGt(val_log[2].f1, val_log[1].f1)
    /\ val_log[2].wts # val_log[1].wts
    /\ best_f1 = val_log[1].f1
    /\ ckpt = [present |-> TRUE, wts |-> val_log[1].wts]

(***************************************************************************)
(* C3.  Every step of a val phase of train_model and every step of         *)
(* test_model leaves the parameters unchanged and runs no backward pass;   *)
(* inside train_model the parameters change only in a step that processes  *)
(* a batch of the train phase.                                             *)
(***************************************************************************)
C3_Step ==
    /\ ((pc = "batch" /\ phase = "val") \/ pc = "test_batch") =>
           (params' = params /\ ~has_grad')
    /\ (pc \in TrainPcs /\ pc' \in TrainPcs /\ params' # params) =>
           (pc = "batch" /\ phase = "train" /\ batch_idx < NumBatches(phase, batch_size))

C3_ParamsChangeOnlyInTrainPhase == [][C3_Step]_vars

\* a val batch has been processed by a model that training steps had changed
C3_Witness ==
    /\ pc = "batch"
    /\ phase = "val"
    /\ batch_idx = NumBatches("val", batch_size)
    /\ epoch = 1
    /\ params = 2 * NumBatches("train", batch_size)

(***************************************************************************)
(* C4.  The epoch loss recorded for a phase equals the sum over the        *)
(* phase's batches of (batch loss x number of examples of the batch)       *)
(* divided by the phase's data set size, and is >= 0.                      *)
(***************************************************************************)
ExampleWeighted(log) == SumSeq([i \in 1..Len(log) |-> log[i].loss * log[i].examples])

C4_EpochLossIsExampleWeighted ==
    AtPhaseEnd =>
        /\ phase_log[Len(phase_log)][3]
               = Frac(ExampleWeighted(batch_log), dataset_sizes(LastPhase))
        /\ phase_log[Len(phase_log)][3][1] >= 0

(***************************************************************************)
(* C5.  In train_model and in test_model alike, the label predicted for an *)
(* example and a class is 1 exactly when the class probability is strictly *)
(* greater than 0.4 (40 hundredths); a probability of exactly 0.4 gives 0. *)
(***************************************************************************)
LastRows == SubSeq(y_pred.rows, Len(y_pred.rows) - Len(pred) + 1, Len(y_pred.rows))

C5_ThresholdStrictlyAbovePointFour ==
    ((pc = "batch" \/ pc = "test_batch") /\ batch_idx > 0) =>
        /\ Len(pred) <= Len(y_pred.rows)
        /\ \A i \in 1..Len(pred) : \A c \in Classes :
               /\ LastRows[i][c] \in {0, 1}
               /\ (LastRows[i][c] = 1) <=> (pred[i][c] > 40)

\* test_model has thresholded a probability of exactly 0.4 and one just above
C5_Witness ==
    /\ pc = "test_batch"
    /\ batch_idx > 0
    /\ \E i \in 1..Len(pred) : \E c, d \in Classes :
           /\ pred[i][c] = 40 /\ LastRows[i][c] = 0
           /\ pred[i][d] = 41 /\ LastRows[i][d] = 1

(***************************************************************************)
(* C6.  The true-label and predicted-label accumulators are empty          *)
(* (0 rows, 7 columns) at the start of every phase, always have the same   *)
(* shape, grow by one row pair per example of each processed batch in      *)
(* batch order without changing the rows already appended, and at the end  *)
(* of the phase hold exactly one row per example of the phase's batches.   *)
(***************************************************************************)
Shape(m) == <<Len(m.rows), m.ncols>>

\* the examples the first k batches of a phase yield
Yielded(ph, k, bs) == Min(k * bs, Len(Dataset(ph)))

LabelsOf(ph, n) == [i \in 1..n |-> Dataset(ph)[i].labels]

IsPrefix(a, b) == Len(a) <= Len(b) /\ SubSeq(b, 1, Len(a)) = a

Looping == pc = "batch" \/ pc = "test_batch"

C6_State ==
    /\ Shape(y_true) = Shape(y_pred)
    /\ y_true.ncols = 7
    /\ \A i \in 1..Len(y_pred.rows) : DOMAIN y_pred.rows[i] = 1..7
    /\ (Looping /\ batch_idx = 0) => (y_true.rows = <<>> /\ y_pred.rows = <<>>)
    /\ Looping => y_true.rows = LabelsOf(phase, Yielded(phase, batch_idx, batch_size))
    /\ AtPhaseEnd => Len(y_true.rows) = dataset_sizes(LastPhase)
    /\ pc = "test_done" => Len(y_true.rows) = dataset_sizes("test")

C6_Step ==
    (Looping /\ pc' = pc) =>
        /\ IsPrefix(y_true.rows, y_true'.rows)
        /\ IsPrefix(y_pred.rows, y_pred'.rows)
        /\ Len(y_pred'.rows) - Len(y_pred.rows)
               = Len(BatchExamples(phase, batch_idx, batch_size))

C6_AccumulatorsPerPhase == []C6_State /\ [][C6_Step]_vars

\* the val phase of the second epoch has ended, after three earlier phases
C6_Witness ==
    /\ AtPhaseEnd
    /\ Len(phase_log) = 4
    /\ Len(y_pred.rows) = Len(ValData)
    /\ Len(batch_log) = 2

(***************************************************************************)
(* C7.  At every point of train_model the checkpoint file is absent        *)
(* exactly when no validation phase has improved on the initial best, and  *)
(* otherwise holds the parameters the model had at the end of the          *)
(* validation phase that last set best_f1, whatever training steps have    *)
(* run since.                                                              *)
(***************************************************************************)
C7_CheckpointIsLastBestSnapshot ==
    InTrainModel =>
        /\ ckpt.present <=> SomeImprovement
        /\ ckpt.present =>
               /\ ckpt.wts = val_log[BestIdx].wts
               /\ best_f1 = val_log[BestIdx].f1

\* training steps have changed the model since the checkpoint was written
C7_Witness ==
    /\ pc = "batch"
    /\ phase = "train"
    /\ batch_idx > 0
    /\ ckpt.present
    /\ ckpt.wts < params

(***************************************************************************)
(* C8.  train_model runs the phases train, val of epoch 0, then train, val *)
(* of epoch 1, and so on; a phase ends only when all its batches have been *)
(* processed and the next begins only after it ended; at the return the    *)
(* loss history holds num_epochs entries per phase, entry e being the      *)
(* epoch loss of that phase of epoch e.                                    *)
(***************************************************************************)
PhaseOf(i) == IF i % 2 = 1 THEN "train" ELSE "val"

C8_PhaseOrderAndLossHistory ==
    InTrainModel =>
        /\ \A i \in 1..Len(phase_log) :
               phase_log[i][1] = (i - 1) \div 2 /\ phase_log[i][2] = PhaseOf(i)
        /\ epoch <= num_epochs
        /\ pc # "returned" =>
               Len(phase_log) = 2 * epoch + (IF phase = "val" THEN 1 ELSE 0)
        /\ AtPhaseEnd => Len(batch_log) = NumBatches(LastPhase, batch_size)
        /\ pc = "returned" =>
               /\ Len(phase_log) = 2 * num_epochs
               /\ Len(model_loss["train"]) = num_epochs
               /\ Len(model_loss["val"]) = num_epochs
               /\ \A e \in 0..(num_epochs - 1) :
                      /\ model_loss["train"][e + 1] = phase_log[2 * e + 1][3]
                      /\ model_loss["val"][e + 1] = phase_log[2 * e + 2][3]

\* two epochs were run and their four recorded losses are not all the same
C8_Witness ==
    /\ pc = "returned"
    /\ num_epochs = 2
    /\ model_loss["train"][1] # model_loss["train"][2]
    /\ model_loss["val"][1] # model_loss["val"][2]

(***************************************************************************)
(* C9.  As stated: once a validation phase has ended, the four best-metric *)
(* values are those of the earliest epoch whose validation F1 is the       *)
(* maximum seen so far.                                                    *)
(***************************************************************************)
C9_BestMetricsFromEarliestMaxEpoch ==
    (InTrainModel /\ val_log # <<>>) => BestMetrics = MetricsOf(val_log[BestIdx])

(***************************************************************************)
(* C9, amended.  Once some epoch's validation F1 has exceeded 0.0, the     *)
(* four best-metric values are those of the earliest epoch whose           *)
(* validation F1 is the maximum seen so far (a later epoch with the same   *)
(* F1 replaces none of them); until then all four are 0.0.                 *)
(***************************************************************************)
C9_BestMetricsFromEarliestImprovingEpoch ==
    InTrainModel =>
        IF SomeImprovement
        THEN BestMetrics = MetricsOf(val_log[BestIdx])
        ELSE BestMetrics = <<Zero, Zero, Zero, Zero>>

\* the second epoch tied the first on F1 with another precision and recall
C9_Witness ==
    /\ pc = "returned"
    /\ Len(val_log) = 2
    /\ FracGt(val_log[1].f1, Zero)
    /\ val_log[2].f1 = val_log[1].f1
    /\ val_log[2].precision # val_log[1].precision
    /\ val_log[2].recall # val_log[1].recall
    /\ val_log[2].acc # val_log[1].acc
    /\ BestMetrics = MetricsOf(val_log[1])

(***************************************************************************)
(* C10.  A training run that started with no checkpoint file leaves one    *)
(* exactly when some epoch's validation F1 was above 0.0; with every       *)
(* validation F1 at 0.0 (or with zero epochs) train_model returns without  *)
(* writing one, and a following evaluation-only run fails at the load and  *)
(* never reaches test_model.                                               *)
(***************************************************************************)
C10_CheckpointIffSomeImprovement ==
    /\ ~trained => ~ckpt.present
    /\ (trained /\ pc \notin {"phase_start", "batch"}) => (ckpt.present <=> SomeImprovement)
    /\ pc = "load_failed" => ~ckpt.present
    /\ pc \in {"test_batch", "test_done"} => (trained /\ SomeImprovement)

\* an evaluation-only run failed at the load after a run of zero-F1 epochs
C10_Witness ==
    /\ pc = "load_failed"
    /\ trained
    /\ Len(val_log) = 2
    /\ ~SomeImprovement

====
